---------------------------- MODULE Spec2Model ----------------------------
(***************************************************************************)
(* The daily quota gate of the football prediction bot (scheduler.py) and  *)
(* the /predict handler that drives it (bot.py, main.py).                  *)
(*                                                                         *)
(* The backing file daily_log.json is modelled by its existence and its    *)
(* text, the string json.dump writes.  The clock is a day                  *)
(* number; datetime.now().strftime("%Y-%m-%d") turns it into the date      *)
(* string that is stored and compared.                                     *)
(***************************************************************************)
EXTENDS Integers, Sequences, FiniteSets, TLC

\* ------------------------------------------------------------------ bounds

\* Number of calendar days the clock runs through.
MaxDay == 2

\* Number of event handlers that may be in flight at once.
NumHandlers == 2

\* Number of direct register_prediction() calls made per day.
MaxCalls == 12

\* Number of repeated can_predict_today() calls that are told apart.
MaxStreak == 2

\* Number of concurrent register_prediction() calls made on the day.
MaxRace == 3

\* Number of the lowest values of random.randint(80, 99) that are drawn.
MaxSpread == 3

\* ------------------------------------------------------- program constants

\* scheduler.py:22 -- the literal 10 in `data["count"] < 10`.
LIMIT == 10

\* model.py:13 -- the slice predictions[:5].
TopN == 5

\* model.py:4-10 -- the number of hard-coded matches.
NumMatches == 5

\* model.py:11 -- the bounds of random.randint(80, 99).
ConfLo == 80

ConfHi == 99

Procs == 1..NumHandlers

Days == 1..MaxDay

\* Integers a count token can denote (wide enough for every reachable count).
IntRange == 0..(LIMIT + MaxCalls + NumHandlers + 1)

\* ------------------------------------------------------------ pure helpers

\* datetime.now().strftime("%Y-%m-%d") for day number d of January 2024.
StrFTime(d) ==
    "2024-01-" \o (IF d < 10 THEN "0" ELSE "") \o ToString(d)

\* The record _load_data returns when the file does not exist.
DefaultRecord == [date |-> "", count |-> 0]

\* A return value: ok = FALSE stands for a raised exception.
Return(v) == [ok |-> TRUE, val |-> v]

Raise(v) == [ok |-> FALSE, val |-> v]

\* f.write(str(data)) in place of json.dump: Python's quotes, not JSON's.
StrOfDict(d) ==
    "{'date': '" \o d.date \o "', 'count': " \o ToString(d.count) \o "}"

\* json.dump(data, f): the text written for {"date": ..., "count": ...}.
json_dump(d) ==
    "{\"date\": \"" \o d.date \o "\", \"count\": " \o ToString(d.count) \o "}"

\* The decimal text of each integer a count can be.
IntText == [n \in IntRange |-> ToString(n)]

\* text[i:j] of Python, with positions counted from 1 and j included: the
\* part of the text that lies within those positions.
Slice(text, i, j) ==
    LET lo == IF i < 1 THEN 1 ELSE i
        hi == IF j > Len(text) THEN Len(text) ELSE j
    IN  IF lo > hi THEN "" ELSE SubSeq(text, lo, hi)

\* The position of the first double quote at or after position i, or 0.
QuoteFrom(text, i) ==
    LET at == {k \in i..Len(text) : Slice(text, k, k) = "\""}
    IN  IF at = {} THEN 0 ELSE CHOOSE k \in at : \A j \in at : k <= j

\* json.load(f): the record the text denotes, or JSONDecodeError when the
\* text is not one complete object of the two fields.
json_load(text) ==
    LET n == Len(text)
        q == QuoteFrom(text, 11)
        number == Slice(text, q + 12, n - 1)
    IN  IF /\ Slice(text, 1, 10) = "{\"date\": \""
           /\ q > 0
           /\ Slice(text, q, q + 11) = "\", \"count\": "
           /\ Slice(text, n, n) = "}"
           /\ \E v \in IntRange : IntText[v] = number
        THEN Return([date |-> Slice(text, 11, q - 1),
                     count |-> CHOOSE v \in IntRange : IntText[v] = number])
        ELSE Raise(DefaultRecord)

\* ----------------------------------------------------------- the file system

Absent == [exists |-> FALSE, text |-> ""]

FileOf(text) == [exists |-> TRUE, text |-> text]

\* The file once _load_data has run on it, as if it created the record lazily.
FileAfterLoadCreating(f) ==
    IF f.exists THEN f ELSE FileOf(json_dump(DefaultRecord))

\* The file once _load_data has run on it: os.path.exists and open(.., "r")
\* read, they do not write.
FileAfterLoad(f) == f

\* _load_data() without the os.path.exists test: open raises on no file.
LoadWithoutExistsTest(f) ==
    IF ~f.exists THEN Raise(DefaultRecord) ELSE json_load(f.text)

\* _load_data(): the default when the file is absent, else json.load of it.
load_data(f) ==
    IF ~f.exists THEN Return(DefaultRecord) ELSE json_load(f.text)

\* open(DATA_PATH, "w"): creates the file or truncates it to nothing.
open_w(f) == FileOf("")

\* A write of text at offset 0 of a file: what lay beyond its end stays.
WriteAt0(old, new) ==
    IF Len(old) > Len(new)
    THEN new \o Slice(old, Len(new) + 1, Len(old))
    ELSE new

\* json.dump(data, f) and the close at the end of the with block: the
\* buffered text is written at the offset of this open, which is 0.
dump_close(f, d) == FileOf(WriteAt0(f.text, json_dump(d)))

\* _save_data(data), run without interruption.
save_data(f, d) == dump_close(open_w(f), d)

\* ------------------------------------------------- the prediction source

\* model.py:4-10 -- the hard-coded matches, in the order of the list.
Matches ==
    << "Real Madrid vs Barcelona - Real Win",
       "Man City vs Liverpool - Draw",
       "Boca Juniors vs River Plate - River Win",
       "Mamelodi Sundowns vs Kaizer Chiefs - Sundowns Win",
       "Ajax vs PSV - Over 2.5 Goals" >>

\* The values random.randint(80, 99) is taken to return: the lowest ones
\* and the highest.
Confidences ==
    {c \in ConfLo..ConfHi : c < ConfLo + MaxSpread} \cup {ConfHi}

\* One random draw for each match.
DrawsOf == [1..NumMatches -> Confidences]

\* The sort key of line 12: lambda x: -x["confidence"].
SortKey(x) == 0 - x.confidence

\* The place list.sort gives x among the entries before it, with the sign
\* of the key forgotten: the lowest confidence comes first.
InsertLowestFirst(s, x) ==
    LET k == Cardinality({i \in 1..Len(s) : s[i].confidence <= x.confidence})
    IN  SubSeq(s, 1, k) \o << x >> \o SubSeq(s, k + 1, Len(s))

\* The place list.sort gives x among the sorted entries that came before it
\* in the list: after every entry whose key is not greater (the sort is
\* stable).
InsertStable(s, x) ==
    LET k == Cardinality({i \in 1..Len(s) : SortKey(s[i]) <= SortKey(x)})
    IN  SubSeq(s, 1, k) \o << x >> \o SubSeq(s, k + 1, Len(s))

RECURSIVE sort(_)
\* predictions.sort(key=lambda x: -x["confidence"])
sort(s) ==
    IF s = << >>
    THEN << >>
    ELSE InsertStable(sort(SubSeq(s, 1, Len(s) - 1)), s[Len(s)])

\* predictions[:n]
Prefix(s, n) == SubSeq(s, 1, IF Len(s) < n THEN Len(s) ELSE n)

\* get_top_predictions() when random.randint returns draw[i] for match i.
get_top_predictions(draw) ==
    Prefix(sort([i \in 1..NumMatches |->
                   [label |-> Matches[i], confidence |-> draw[i]]]),
         TopN)

\* ------------------------------------------------------------ the quota gate

\* Lines 20-22 of can_predict_today, with <= for <.
DecideOffByOne(d, today) ==
    IF d.date # today THEN TRUE ELSE d.count <= LIMIT

\* Lines 20-22 of can_predict_today, without the date test.
DecideIgnoringDate(d, today) == d.count < LIMIT

\* Lines 20-22 of can_predict_today: the decision on a loaded record.
Decide(d, today) ==
    IF d.date # today THEN TRUE ELSE d.count < LIMIT

\* can_predict_today(), run without interruption.
can_predict_today(f, today) ==
    LET r == load_data(f)
    IN  IF r.ok THEN Return(Decide(r.val, today)) ELSE Raise(FALSE)

\* Lines 27-30 of register_prediction, keeping the stale count.
UpdateKeepingCount(d, today) ==
    [date |-> today, count |-> d.count + 1]

\* Lines 27-30 of register_prediction, refusing to count past the limit.
UpdateCapped(d, today) ==
    IF d.date # today
    THEN [date |-> today, count |-> 1]
    ELSE [d EXCEPT !.count = IF @ < LIMIT THEN @ + 1 ELSE @]

\* Lines 27-30 of register_prediction: the record to save.
Update(d, today) ==
    IF d.date # today
    THEN [date |-> today, count |-> 1]
    ELSE [d EXCEPT !.count = @ + 1]

\* register_prediction(), run without interruption: the file it leaves.
register_prediction(f, today) ==
    LET r == load_data(f)
    IN  IF r.ok THEN Return(save_data(f, Update(r.val, today))) ELSE Raise(f)

\* ------------------------------------------------------------------- state

VARIABLES
    file,       \* daily_log.json: [exists, text]
    clock,      \* the day number datetime.now() falls on
    calls,      \* direct register_prediction() calls completed on this day
    last,       \* the last direct call made: its name
    loaded,     \* what the last direct _load_data() returned
    answer,     \* what the last direct can_predict_today() returned
    streak,     \* can_predict_today() calls since the last register or day change
    pc,         \* per handler: the statement of predict() it is at
    data,       \* per handler: the local `data` of the scheduler function it is in
    preds,      \* per handler: len(predictions)
    exc,        \* per handler: the exception raised in it
    checkDay,   \* per handler: the day its can_predict_today() returned True
    old,        \* per handler: the file as its open(.., "w") found it
    done,       \* the event handled last: its reply, exception and logging
    served,     \* predictions replies to events that passed the check today
    trace,      \* per handler: the calls its event has completed, in order
    doneTrace,  \* the event handled last: the calls it completed, in order
    doneDay,    \* the event handled last: the day it ended on
    regs,       \* per day: direct register_prediction() calls completed on it
    lastRegDay, \* the day of the latest direct register_prediction() call
    seen,       \* per caller: what its concurrent register_prediction() loaded
    failedOn,   \* the day a save last failed
    top         \* what a direct get_top_predictions() returned, until dropped

handlerVars ==
    << pc, data, preds, exc, checkDay, old, done, served, trace, doneTrace,
       doneDay >>

gateVars == << calls, last, loaded, answer, streak, regs, lastRegDay >>

histVars == << seen, failedOn, top >>

vars == << file, clock, gateVars, handlerVars, histVars >>

Today == StrFTime(clock)

\* What is known of a handled event.
Done(reply, e, l) == [out |-> reply, exc |-> e, logged |-> l]

\* Before any call, loaded and answer hold no return value; no handler runs.
Init ==
    /\ file = Absent
    /\ clock = 1
    /\ calls = 0
    /\ last = "init"
    /\ loaded = Raise(DefaultRecord)
    /\ answer = Raise(FALSE)
    /\ streak = 0
    /\ pc = [p \in Procs |-> "idle"]
    /\ data = [p \in Procs |-> DefaultRecord]
    /\ preds = [p \in Procs |-> 0]
    /\ exc = [p \in Procs |-> "none"]
    /\ checkDay = [p \in Procs |-> 0]
    /\ old = [p \in Procs |-> Absent]
    /\ done = Done("none", "none", FALSE)
    /\ served = 0
    /\ trace = [p \in Procs |-> << >>]
    /\ doneTrace = << >>
    /\ doneDay = 0
    /\ regs = [d \in Days |-> 0]
    /\ lastRegDay = 0
    /\ seen = [p \in Procs |-> DefaultRecord]
    /\ failedOn = 0
    /\ top = << >>

\* ------------------------------------------- direct calls, one at a time

\* The calendar day changes.
Tick ==
    /\ clock < MaxDay
    /\ clock' = clock + 1
    /\ calls' = 0
    /\ streak' = 0
    /\ last' = "tick"
    /\ served' = 0
    /\ UNCHANGED << file, loaded, answer, regs, lastRegDay >>
    /\ UNCHANGED << pc, data, preds, exc, checkDay, old, done >>
    /\ UNCHANGED << trace, doneTrace, doneDay, histVars >>

\* A call of _load_data().
CallLoad ==
    /\ file' = FileAfterLoad(file)
    /\ loaded' = load_data(file)
    /\ last' = "load"
    /\ UNCHANGED << clock, calls, answer, streak, regs, lastRegDay >>
    /\ UNCHANGED << handlerVars, histVars >>

\* A call of can_predict_today().
CallCanPredict ==
    /\ file' = FileAfterLoad(file)
    /\ answer' = can_predict_today(file, Today)
    /\ streak' = IF streak < MaxStreak THEN streak + 1 ELSE streak
    /\ last' = "can_predict"
    /\ UNCHANGED << clock, calls, loaded, regs, lastRegDay >>
    /\ UNCHANGED << handlerVars, histVars >>

\* A call of register_prediction(), whether or not the gate was asked.
CallRegister ==
    /\ calls < MaxCalls
    /\ file' = register_prediction(FileAfterLoad(file), Today).val
    /\ calls' = calls + 1
    /\ streak' = 0
    /\ last' = "register"
    /\ regs' = [regs EXCEPT ![clock] = @ + 1]
    /\ lastRegDay' = clock
    /\ UNCHANGED << clock, loaded, answer, handlerVars, histVars >>

NextGate == Tick \/ CallLoad \/ CallCanPredict \/ CallRegister

SpecGate == Init /\ [][NextGate]_vars

\* ------------------------------------------- the store, called directly

\* The records a caller may hand to _save_data.
Records == [date : {""} \cup {StrFTime(d) : d \in Days}, count : 0..MaxCalls]

\* A call of _save_data(r).
CallSave(r) ==
    /\ file' = save_data(file, r)
    /\ last' = "save"
    /\ UNCHANGED << clock, calls, loaded, answer, streak, regs, lastRegDay >>
    /\ UNCHANGED << handlerVars, histVars >>

\* A call of _save_data(_load_data()).
CallSaveLoaded ==
    /\ load_data(file).ok
    /\ file' = save_data(FileAfterLoad(file), load_data(file).val)
    /\ last' = "save_loaded"
    /\ UNCHANGED << clock, calls, loaded, answer, streak, regs, lastRegDay >>
    /\ UNCHANGED << handlerVars, histVars >>

NextStore == CallLoad \/ CallSaveLoaded \/ \E r \in Records : CallSave(r)

SpecStore == Init /\ [][NextStore]_vars

\* A call of get_top_predictions(), whatever random.randint draws.
CallGetTop ==
    /\ top = << >>
    /\ \E draw \in DrawsOf : top' = get_top_predictions(draw)
    /\ UNCHANGED << file, clock, gateVars, handlerVars, seen, failedOn >>

\* The caller is done with the list it was returned.
DropTop ==
    /\ top # << >>
    /\ top' = << >>
    /\ UNCHANGED << file, clock, gateVars, handlerVars, seen, failedOn >>

\* Calls of get_top_predictions(), one after the other.
NextModel == CallGetTop \/ DropTop

SpecModel == Init /\ [][NextModel]_vars

\* ------------------------------------------------- the /predict handler

\* len(get_top_predictions()): one entry per match, cut to the first five.
get_top_predictions_len == IF NumMatches < TopN THEN NumMatches ELSE TopN

\* A /predict command arrives and a handler starts on it.
Begin(p) ==
    /\ pc[p] = "idle"
    /\ pc' = [pc EXCEPT ![p] = "cpt_load"]
    /\ UNCHANGED << file, clock, gateVars, data, preds, exc, checkDay, old,
                    done, served >>
    /\ UNCHANGED << trace, doneTrace, doneDay, histVars >>

\* Updates are handled one after the other: the next starts when none runs.
ArriveAlone(p) ==
    /\ \A q \in Procs : pc[q] = "idle"
    /\ Begin(p)

\* Updates are handled concurrently: the next starts whatever else runs.
Arrive(p) == Begin(p)

\* _load_data() at line `at` of a scheduler function; an exception leaves
\* the handler for the dispatcher's error handling.
Load(p, at, next) ==
    /\ pc[p] = at
    /\ file' = FileAfterLoad(file)
    /\ LET r == load_data(file)
       IN  IF r.ok
           THEN /\ data' = [data EXCEPT ![p] = r.val]
                /\ pc' = [pc EXCEPT ![p] = next]
                /\ exc' = exc
           ELSE /\ data' = data
                /\ pc' = [pc EXCEPT ![p] = "error"]
                /\ exc' = [exc EXCEPT ![p] = "JSONDecodeError"]
    /\ UNCHANGED << clock, gateVars, preds, checkDay, old, done,
                    served >>
    /\ UNCHANGED << trace, doneTrace, doneDay, histVars >>

\* can_predict_today, line 18.
CptLoad(p) == Load(p, "cpt_load", "cpt_decide")

\* The calls of a run the gate denies, in order.
RunDenied == << "can_predict_today", "reply_text" >>

\* The calls of a run the gate allows, in order.
RunAllowed ==
    << "can_predict_today", "get_top_predictions", "register_prediction",
       "reply_text" >>

\* A handler that fetches the predictions before it tests the gate's answer.
CptDecideFetchingFirst(p) ==
    /\ pc[p] = "cpt_decide"
    /\ IF Decide(data[p], Today)
       THEN /\ pc' = [pc EXCEPT ![p] = "fetch"]
            /\ checkDay' = [checkDay EXCEPT ![p] = clock]
            /\ done' = done
            /\ trace' = [trace EXCEPT ![p] = Append(@, "can_predict_today")]
            /\ UNCHANGED << doneTrace, doneDay >>
       ELSE /\ pc' = [pc EXCEPT ![p] = "idle"]
            /\ checkDay' = checkDay
            /\ done' = Done("denied", "none", FALSE)
            /\ doneTrace' = trace[p] \o << "can_predict_today",
                                           "get_top_predictions", "reply_text" >>
            /\ trace' = [trace EXCEPT ![p] = << >>]
            /\ doneDay' = clock
    /\ data' = [data EXCEPT ![p] = DefaultRecord]
    /\ UNCHANGED << file, clock, gateVars, preds, exc, old, served >>
    /\ UNCHANGED histVars

\* can_predict_today, lines 19-22, and the handler's test of the result:
\* the denial reply and return, or on to the predictions.
CptDecide(p) ==
    /\ pc[p] = "cpt_decide"
    /\ IF Decide(data[p], Today)
       THEN /\ pc' = [pc EXCEPT ![p] = "fetch"]
            /\ checkDay' = [checkDay EXCEPT ![p] = clock]
            /\ done' = done
            /\ trace' = [trace EXCEPT ![p] = Append(@, "can_predict_today")]
            /\ UNCHANGED << doneTrace, doneDay >>
       ELSE /\ pc' = [pc EXCEPT ![p] = "idle"]
            /\ checkDay' = checkDay
            /\ done' = Done("denied", "none", FALSE)
            /\ doneTrace' = trace[p] \o << "can_predict_today", "reply_text" >>
            /\ trace' = [trace EXCEPT ![p] = << >>]
            /\ doneDay' = clock
    /\ data' = [data EXCEPT ![p] = DefaultRecord]
    /\ UNCHANGED << file, clock, gateVars, preds, exc, old, served >>
    /\ UNCHANGED histVars

\* predictions = get_top_predictions()
Fetch(p) ==
    /\ pc[p] = "fetch"
    /\ preds' = [preds EXCEPT ![p] = get_top_predictions_len]
    /\ pc' = [pc EXCEPT ![p] = "reg_load"]
    /\ UNCHANGED << file, clock, gateVars, data, exc, checkDay, old, done,
                    served >>
    /\ trace' = [trace EXCEPT ![p] = Append(@, "get_top_predictions")]
    /\ UNCHANGED << doneTrace, doneDay, histVars >>

\* register_prediction, line 25.
RegLoad(p) == Load(p, "reg_load", "reg_update")

\* register_prediction, lines 26-30.
RegUpdate(p) ==
    /\ pc[p] = "reg_update"
    /\ data' = [data EXCEPT ![p] = Update(data[p], Today)]
    /\ pc' = [pc EXCEPT ![p] = "save_open"]
    /\ UNCHANGED << file, clock, gateVars, preds, exc, checkDay, old, done,
                    served >>
    /\ UNCHANGED << trace, doneTrace, doneDay, histVars >>

\* _save_data, line 14.
SaveOpen(p) ==
    /\ pc[p] = "save_open"
    /\ file' = open_w(file)
    /\ old' = [old EXCEPT ![p] = file]
    /\ pc' = [pc EXCEPT ![p] = "save_dump"]
    /\ UNCHANGED << clock, gateVars, data, preds, exc, checkDay, done, served >>
    /\ UNCHANGED << trace, doneTrace, doneDay, histVars >>

\* _save_data, line 15, to the end of the with block.
SaveDump(p) ==
    /\ pc[p] = "save_dump"
    /\ file' = dump_close(file, data[p])
    /\ data' = [data EXCEPT ![p] = DefaultRecord]
    /\ old' = [old EXCEPT ![p] = Absent]
    /\ pc' = [pc EXCEPT ![p] = "reply"]
    /\ UNCHANGED << clock, gateVars, preds, exc, checkDay, done, served >>
    /\ trace' = [trace EXCEPT ![p] = Append(@, "register_prediction")]
    /\ UNCHANGED << doneTrace, doneDay, histVars >>

\* The handler's reply without the return at the end of the `if not
\* predictions` block: the predictions message follows the first reply.
ReplyFallsThrough(p) ==
    /\ pc[p] = "reply"
    /\ done' = Done("predictions", "none", FALSE)
    /\ served' = IF checkDay[p] = clock THEN served + 1 ELSE served
    /\ pc' = [pc EXCEPT ![p] = "idle"]
    /\ preds' = [preds EXCEPT ![p] = 0]
    /\ checkDay' = [checkDay EXCEPT ![p] = 0]
    /\ UNCHANGED << file, clock, gateVars, data, exc, old >>
    /\ doneTrace' = IF preds[p] = 0
                    THEN trace[p] \o << "reply_text", "reply_text" >>
                    ELSE Append(trace[p], "reply_text")
    /\ doneDay' = clock
    /\ trace' = [trace EXCEPT ![p] = << >>]
    /\ UNCHANGED histVars

\* The handler's reply after register_prediction(): no predictions, or the
\* list of them.
Reply(p) ==
    /\ pc[p] = "reply"
    /\ IF preds[p] = 0
       THEN /\ done' = Done("no_predictions", "none", FALSE)
            /\ served' = served
       ELSE /\ done' = Done("predictions", "none", FALSE)
            /\ served' = IF checkDay[p] = clock THEN served + 1 ELSE served
    /\ pc' = [pc EXCEPT ![p] = "idle"]
    /\ preds' = [preds EXCEPT ![p] = 0]
    /\ checkDay' = [checkDay EXCEPT ![p] = 0]
    /\ UNCHANGED << file, clock, gateVars, data, exc, old >>
    /\ doneTrace' = Append(trace[p], "reply_text")
    /\ doneDay' = clock
    /\ trace' = [trace EXCEPT ![p] = << >>]
    /\ UNCHANGED histVars

\* open(DATA_PATH, "w") fails: OSError, the file as it was.
SaveOpenFails(p) ==
    /\ pc[p] = "save_open"
    /\ pc' = [pc EXCEPT ![p] = "error"]
    /\ exc' = [exc EXCEPT ![p] = "OSError"]
    /\ UNCHANGED << file, clock, gateVars, data, preds, checkDay, old, done,
                    served >>
    /\ failedOn' = clock
    /\ UNCHANGED << trace, doneTrace, doneDay, seen, top >>

\* The write fails part way: OSError, the file left with the first k
\* characters of the text.
SaveDumpFails(p) ==
    /\ pc[p] = "save_dump"
    /\ \E k \in 0..(Len(json_dump(data[p])) - 1) :
           file' = FileOf(WriteAt0(file.text, Slice(json_dump(data[p]), 1, k)))
    /\ pc' = [pc EXCEPT ![p] = "error"]
    /\ exc' = [exc EXCEPT ![p] = "OSError"]
    /\ UNCHANGED << clock, gateVars, data, preds, checkDay, old, done,
                    served >>
    /\ failedOn' = clock
    /\ UNCHANGED << trace, doneTrace, doneDay, seen, top >>

\* The dispatcher hands the exception to error_handler, which logs it and
\* replies with the error message; the handler's locals are gone.
ErrorHandler(p) ==
    /\ pc[p] = "error"
    /\ done' = Done("error", exc[p], TRUE)
    /\ pc' = [pc EXCEPT ![p] = "idle"]
    /\ exc' = [exc EXCEPT ![p] = "none"]
    /\ data' = [data EXCEPT ![p] = DefaultRecord]
    /\ preds' = [preds EXCEPT ![p] = 0]
    /\ checkDay' = [checkDay EXCEPT ![p] = 0]
    /\ old' = [old EXCEPT ![p] = Absent]
    /\ UNCHANGED << file, clock, gateVars, served >>
    /\ doneTrace' = Append(trace[p], "reply_text")
    /\ doneDay' = clock
    /\ trace' = [trace EXCEPT ![p] = << >>]
    /\ UNCHANGED histVars

\* One statement of a handler that raises nothing.
Step(p) ==
    \/ CptLoad(p)
    \/ CptDecide(p)
    \/ Fetch(p)
    \/ RegLoad(p)
    \/ RegUpdate(p)
    \/ SaveOpen(p)
    \/ SaveDump(p)
    \/ Reply(p)

\* Handlers one at a time, storage never failing.
NextSeq == Tick \/ \E p \in Procs : ArriveAlone(p) \/ Step(p)

SpecSeq == Init /\ [][NextSeq]_vars

\* Handlers one at a time, the save failing at will.
NextFault ==
    \/ Tick
    \/ \E p \in Procs :
           \/ ArriveAlone(p)
           \/ Step(p)
           \/ SaveOpenFails(p)
           \/ SaveDumpFails(p)
           \/ ErrorHandler(p)

SpecFault == Init /\ [][NextFault]_vars

\* Handlers running concurrently, interleaved at each load and save.
Next == Tick \/ \E p \in Procs : Arrive(p) \/ Step(p) \/ ErrorHandler(p)

Spec == Init /\ [][Next]_vars

\* ------------------------------------------------- the other handlers

\* What the commands besides /predict leave behind: a reply, nothing else.
Replied(reply, call) ==
    /\ done' = Done(reply, "none", FALSE)
    /\ doneTrace' = << call >>
    /\ doneDay' = clock
    /\ UNCHANGED << clock, gateVars, pc, data, preds, exc, checkDay, old,
                    served, trace, histVars >>

\* A /start that also clears the quota record.
StartCmdResetting ==
    /\ file' = save_data(file, DefaultRecord)
    /\ Replied("welcome", "reply_text")

\* start: logs the activity and replies with the welcome text.
StartCmd ==
    /\ file' = file
    /\ Replied("welcome", "reply_text")

\* help_command: logs the activity and replies with the help text.
HelpCmd ==
    /\ file' = file
    /\ Replied("help", "reply_text")

\* The callback data a button press may carry.
LeagueCodes == {"premier", "laliga", "seriea", "all", "unknown"}

\* handle_button: answers the query and edits the message, by league code.
ButtonCmd ==
    /\ file' = file
    /\ \E code \in LeagueCodes :
           Replied(IF code = "all" THEN "all_soon" ELSE "league_soon",
                   "edit_message_text")

\* Every handler of the bot, /predict one at a time with the save failing
\* at will, the other commands at any moment.
NextBot == NextFault \/ StartCmd \/ HelpCmd \/ ButtonCmd

SpecBot == Init /\ [][NextBot]_vars

\* ------------------------------- the handler around any prediction source

\* The lengths a prediction source may return: none up to the five shown.
SourceLens == 0..TopN

\* predictions = get_top_predictions(), with the emptiness test made at
\* once: an empty result is answered before register_prediction().
FetchStubCheckingFirst(p) ==
    /\ pc[p] = "fetch"
    /\ \E n \in SourceLens :
           /\ preds' = [preds EXCEPT ![p] = n]
           /\ pc' = [pc EXCEPT ![p] = IF n = 0 THEN "reply" ELSE "reg_load"]
    /\ UNCHANGED << file, clock, gateVars, data, exc, checkDay, old, done,
                    served >>
    /\ trace' = [trace EXCEPT ![p] = Append(@, "get_top_predictions")]
    /\ UNCHANGED << doneTrace, doneDay, histVars >>

\* predictions = get_top_predictions(), the source returning a list of any
\* length.
FetchStub(p) ==
    /\ pc[p] = "fetch"
    /\ \E n \in SourceLens : preds' = [preds EXCEPT ![p] = n]
    /\ pc' = [pc EXCEPT ![p] = "reg_load"]
    /\ UNCHANGED << file, clock, gateVars, data, exc, checkDay, old, done,
                    served >>
    /\ trace' = [trace EXCEPT ![p] = Append(@, "get_top_predictions")]
    /\ UNCHANGED << doneTrace, doneDay, histVars >>

\* predictions = get_top_predictions(), the source raising: the exception
\* leaves the handler before the next statement.
FetchRaises(p) ==
    /\ pc[p] = "fetch"
    /\ pc' = [pc EXCEPT ![p] = "error"]
    /\ exc' = [exc EXCEPT ![p] = "SourceError"]
    /\ UNCHANGED << file, clock, gateVars, data, preds, checkDay, old, done,
                    served >>
    /\ UNCHANGED << trace, doneTrace, doneDay, histVars >>

\* reply_text after register_prediction() raises: nothing is delivered.
ReplyFails(p) ==
    /\ pc[p] = "reply"
    /\ pc' = [pc EXCEPT ![p] = "error"]
    /\ exc' = [exc EXCEPT ![p] = "NetworkError"]
    /\ UNCHANGED << file, clock, gateVars, data, preds, checkDay, old, done,
                    served >>
    /\ UNCHANGED << trace, doneTrace, doneDay, histVars >>

\* Handlers one at a time, storage never failing, around a source that
\* returns any list or raises and a transport that may fail.
NextStub ==
    \/ Tick
    \/ \E p \in Procs :
           \/ ArriveAlone(p)
           \/ CptLoad(p)
           \/ CptDecide(p)
           \/ FetchStub(p)
           \/ FetchRaises(p)
           \/ RegLoad(p)
           \/ RegUpdate(p)
           \/ SaveOpen(p)
           \/ SaveDump(p)
           \/ Reply(p)
           \/ ReplyFails(p)
           \/ ErrorHandler(p)

SpecStub == Init /\ [][NextStub]_vars

\* ------------------------------------------------------ what the file holds

\* The file holds a complete record.
Holds(f) == f.exists /\ load_data(f).ok

Stored(f) == load_data(f).val

\* The file holds a record for another day than today.
Stale(f, today) == Holds(f) /\ Stored(f).date # today

\* ------------------------------- register_prediction() called concurrently

\* A caller enters register_prediction() while others may be inside it.
RaceCall(p) ==
    /\ pc[p] = "idle"
    /\ calls + Cardinality({q \in Procs : pc[q] # "idle"}) < MaxRace
    /\ pc' = [pc EXCEPT ![p] = "race_load"]
    /\ UNCHANGED << file, clock, gateVars, data, preds, exc, checkDay, old,
                    done, served >>
    /\ UNCHANGED << trace, doneTrace, doneDay, histVars >>

\* register_prediction, line 25.
RaceLoad(p) == Load(p, "race_load", "race_update")

\* register_prediction, lines 26-30.
RaceUpdate(p) ==
    /\ pc[p] = "race_update"
    /\ seen' = [seen EXCEPT ![p] = data[p]]
    /\ data' = [data EXCEPT ![p] = Update(data[p], Today)]
    /\ pc' = [pc EXCEPT ![p] = "race_open"]
    /\ UNCHANGED << file, clock, gateVars, preds, exc, checkDay, old, done,
                    served >>
    /\ UNCHANGED << trace, doneTrace, doneDay, failedOn, top >>

\* _save_data, line 14.
RaceOpen(p) ==
    /\ pc[p] = "race_open"
    /\ file' = open_w(file)
    /\ old' = [old EXCEPT ![p] = file]
    /\ pc' = [pc EXCEPT ![p] = "race_dump"]
    /\ UNCHANGED << clock, gateVars, data, preds, exc, checkDay, done, served >>
    /\ UNCHANGED << trace, doneTrace, doneDay, histVars >>

\* A save that keeps the larger count when the file it opened already held
\* one for the same date: no increment is lost.
RaceDumpMerging(p) ==
    /\ pc[p] = "race_dump"
    /\ file' = dump_close(file,
                   IF /\ Holds(old[p])
                      /\ Stored(old[p]).date = data[p].date
                      /\ Stored(old[p]).count >= data[p].count
                   THEN [data[p] EXCEPT !.count = Stored(old[p]).count + 1]
                   ELSE data[p])
    /\ calls' = calls + 1
    /\ data' = [data EXCEPT ![p] = DefaultRecord]
    /\ old' = [old EXCEPT ![p] = Absent]
    /\ pc' = [pc EXCEPT ![p] = "idle"]
    /\ UNCHANGED << clock, last, loaded, answer, streak, regs, lastRegDay >>
    /\ UNCHANGED << preds, exc, checkDay, done, served >>
    /\ UNCHANGED << trace, doneTrace, doneDay, histVars >>

\* _save_data, line 15, to the end of the with block; the call returns.
RaceDump(p) ==
    /\ pc[p] = "race_dump"
    /\ file' = dump_close(file, data[p])
    /\ calls' = calls + 1
    /\ data' = [data EXCEPT ![p] = DefaultRecord]
    /\ old' = [old EXCEPT ![p] = Absent]
    /\ pc' = [pc EXCEPT ![p] = "idle"]
    /\ UNCHANGED << clock, last, loaded, answer, streak, regs, lastRegDay >>
    /\ UNCHANGED << preds, exc, checkDay, done, served >>
    /\ UNCHANGED << trace, doneTrace, doneDay, histVars >>

\* The load raised: the exception leaves register_prediction() to the caller.
RaceRaise(p) ==
    /\ pc[p] = "error"
    /\ pc' = [pc EXCEPT ![p] = "idle"]
    /\ exc' = [exc EXCEPT ![p] = "none"]
    /\ UNCHANGED << file, clock, gateVars, data, preds, checkDay, old, done,
                    served >>
    /\ UNCHANGED << trace, doneTrace, doneDay, histVars >>

\* Callers of register_prediction() on one calendar day, interleaved at each
\* load and save.
NextRace ==
    \/ \E p \in Procs :
           \/ RaceCall(p)
           \/ RaceLoad(p)
           \/ RaceUpdate(p)
           \/ RaceOpen(p)
           \/ RaceDump(p)
           \/ RaceRaise(p)

SpecRace == Init /\ [][NextRace]_vars

\* ----------------------------------------------------------------- claims

\* C1: starting a day from an absent store or a stale record, after N <= 10
\* register_prediction() calls on that day can_predict_today() returns true
\* exactly when N < 10, and a call made then has returned just that.
C1_OpenIffBelowLimit ==
    calls <= LIMIT =>
        /\ can_predict_today(file, Today) = Return(calls < LIMIT)
        /\ last = "can_predict" => answer = Return(calls < LIMIT)

C1_Witness ==
    /\ calls = LIMIT
    /\ last = "can_predict"
    /\ answer = Return(FALSE)

\* C3: when the stored date is not today, can_predict_today() returns true
\* whatever the stored count, and leaves the stale record as it was.
C3_RolloverReopens ==
    [][(CallCanPredict /\ Stale(file, Today)) =>
           (answer' = Return(TRUE) /\ file' = file)]_vars

C3_Witness ==
    /\ last = "can_predict"
    /\ Stale(file, Today)
    /\ Stored(file).count > LIMIT
    /\ answer = Return(TRUE)

\* C4: register_prediction() stores {today, 1} when no record exists or the
\* stored date is not today, and otherwise keeps the date and adds exactly 1
\* to the count.
C4_RegisterTransform ==
    [][CallRegister =>
           /\ Holds(file')
           /\ IF ~file.exists \/ Stored(file).date # Today
              THEN Stored(file') = [date |-> Today, count |-> 1]
              ELSE Stored(file') = [date |-> Stored(file).date,
                                    count |-> Stored(file).count + 1]]_vars

C4_Witness ==
    /\ last = "register"
    /\ clock = 2
    /\ Stored(file) = [date |-> "2024-01-02", count |-> 1]

\* C6: can_predict_today() leaves the store exactly as it was, and a call
\* repeated with no register_prediction() and no date change in between
\* returns what the call before it returned.
C6_CheckIsPure ==
    [][CallCanPredict =>
           /\ file' = file
           /\ streak > 0 => answer' = answer]_vars

C6_Witness ==
    /\ streak = MaxStreak
    /\ last = "can_predict"
    /\ ~file.exists

\* C10: with the file absent, _load_data() returns exactly the default record
\* and can_predict_today() returns true on every day, neither raising nor
\* creating the file.
C10_AbsentStore ==
    [][~file.exists =>
           /\ CallLoad => (loaded' = Return(DefaultRecord) /\ file' = Absent)
           /\ CallCanPredict => (answer' = Return(TRUE) /\ file' = Absent)]_vars

C10_Witness ==
    /\ ~file.exists
    /\ clock = MaxDay
    /\ loaded = Return(DefaultRecord)
    /\ answer = Return(TRUE)

\* C2: of the /predict events handled on one day, at most 10 pass the check
\* and are served predictions, however the handlers interleave.
C2_AtMostLimitServed == served <= LIMIT

\* C5: with handlers run one at a time, and register_prediction() called
\* only after can_predict_today() returned true, the stored count is
\* within 0..10.
C5_CountWithinLimit ==
    Holds(file) => Stored(file).count \in 0..LIMIT

C5_Witness ==
    /\ Holds(file)
    /\ Stored(file) = [date |-> Today, count |-> LIMIT]
    /\ done.out = "denied"
    /\ \A p \in Procs : pc[p] = "idle"

\* C7: a file that exists with content that does not parse is read as the
\* default record: no load in a handler raises.
C7_ReadsFailOpen ==
    \A p \in Procs : pc[p] = "error" => exc[p] # "JSONDecodeError"

\* C8: a load that runs while another handler is between the open and the
\* close of its save observes the complete record stored before that save,
\* or the complete record being saved.
C8_SaveAtomicForReaders ==
    [][\A p \in Procs :
           (CptLoad(p) \/ RegLoad(p)) =>
               \A q \in Procs \ {p} :
                   pc[q] = "save_dump" =>
                       load_data(file) \in {load_data(old[q]), Return(data[q])}]_vars

\* C9: an event whose save failed still gets the predictions reply, and the
\* failure is logged.
C9_WriteFailureStillServes ==
    done.exc = "OSError" => (done.out = "predictions" /\ done.logged)

\* C11: _save_data(_load_data()) leaves what _load_data() returns as it
\* was, from an absent file as from any record; and _load_data() after
\* _save_data(r) returns r.
C11_RoundTrip ==
    [][/\ CallSaveLoaded => load_data(file') = load_data(file)
       /\ \A r \in Records : CallSave(r) => load_data(file') = Return(r)]_vars

C11_Witness ==
    /\ last = "save_loaded"
    /\ file.exists
    /\ load_data(file) = Return(DefaultRecord)

\* C12: register_prediction() called on a record of today whose count is 10
\* or more still adds 1 and saves: the count passes 10 and goes on growing
\* with each call.
C12_RegisterIgnoresLimit ==
    [][(/\ CallRegister
        /\ Holds(file)
        /\ Stored(file).date = Today
        /\ Stored(file).count >= LIMIT) =>
           Stored(file') = [date |-> Today, count |-> Stored(file).count + 1]]_vars

C12_Witness ==
    /\ last = "register"
    /\ Stored(file) = [date |-> Today, count |-> MaxCalls]
    /\ MaxCalls > LIMIT

\* C16: with register_prediction() calls made one at a time, the stored
\* date is the day of the latest call and the stored count is the number of
\* calls completed on that day.
C16_CountIsCallsOnDate ==
    IF lastRegDay = 0
    THEN ~file.exists
    ELSE /\ Holds(file)
         /\ Stored(file) = [date |-> StrFTime(lastRegDay),
                            count |-> regs[lastRegDay]]

C16_Witness ==
    /\ clock = MaxDay
    /\ lastRegDay = clock
    /\ regs[clock] = 2
    /\ regs[1] = 3

\* C13: when the gate allows a /predict and the source returns an empty
\* list, the handler sends one reply and no more, the "no predictions"
\* message: not the denial, not the predictions message, not the error reply.
C13_EmptyGetsNoPredictionsReply ==
    [][\A p \in Procs :
           (Reply(p) /\ preds[p] = 0) =>
               /\ done' = Done("no_predictions", "none", FALSE)
               /\ doneTrace' = RunAllowed]_vars

C13_Witness ==
    /\ done = Done("no_predictions", "none", FALSE)
    /\ doneTrace = RunAllowed
    /\ doneDay = clock
    /\ Holds(file)
    /\ Stored(file).date = Today

\* C14: a /predict run evaluates can_predict_today() first; denied, it
\* replies and ends with neither get_top_predictions() nor
\* register_prediction() called and the file as it was; allowed, it calls
\* get_top_predictions(), then register_prediction() once, then replies.
C14_CallOrder ==
    [][/\ done'.out = "denied" => doneTrace' = RunDenied
       /\ done'.out \in {"predictions", "no_predictions"} =>
              doneTrace' = RunAllowed
       /\ \A p \in Procs : (CptLoad(p) \/ CptDecide(p)) => file' = file]_vars

C14_Witness ==
    /\ done.out = "denied"
    /\ doneTrace = RunDenied
    /\ Holds(file)
    /\ Stored(file) = [date |-> Today, count |-> LIMIT]

\* C20: register_prediction() has run by the time the handler tests the
\* list and replies, so an allowed /predict adds 1 to the stored count
\* whether the list is empty or not and whether reply_text fails or not;
\* when get_top_predictions() raises, register_prediction() is not called
\* and the file stays as it was.
C20_ConsumedPerAllowedRequest ==
    [][\A p \in Procs :
           /\ SaveDump(p) =>
                  /\ Holds(file')
                  /\ Stored(file').count =
                         (IF Holds(old[p]) /\ Stored(old[p]).date = Stored(file').date
                          THEN Stored(old[p]).count
                          ELSE 0) + 1
           /\ (Reply(p) \/ ReplyFails(p)) =>
                  /\ trace[p] = SubSeq(RunAllowed, 1, 3)
                  /\ file' = file
           /\ (FetchStub(p) \/ FetchRaises(p)) => file' = file
           /\ ErrorHandler(p) =>
                  /\ file' = file
                  /\ exc[p] = "SourceError" => trace[p] = SubSeq(RunAllowed, 1, 1)]_vars

C20_Witness ==
    /\ done = Done("error", "NetworkError", TRUE)
    /\ doneTrace = RunAllowed
    /\ doneDay = clock
    /\ Stored(file) = [date |-> Today, count |-> 2]

\* C15: each of two overlapping register_prediction() calls saves the count
\* it loaded plus 1, whatever was saved since it loaded; when all callers
\* loaded the same record {today, N}, the count left once they have all
\* returned is N + 1: one increment for the lot.
C15_LostUpdate ==
    [][/\ \A p \in Procs :
              RaceDump(p) =>
                  /\ Holds(file')
                  /\ Stored(file') = Update(seen[p], Stored(file').date)
       /\ (/\ \A p \in Procs : pc'[p] = "idle" /\ seen'[p] = seen'[1]
           /\ seen'[1].date = StrFTime(clock')) =>
              Stored(file') = [seen'[1] EXCEPT !.count = @ + 1]]_vars

C15_Witness ==
    /\ \A p \in Procs : pc[p] = "idle" /\ seen[p] = [date |-> Today, count |-> 1]
    /\ calls = 3
    /\ Stored(file) = [date |-> Today, count |-> 2]

\* C17: once a /predict has been denied on a day, can_predict_today() does
\* not return true again on that day, whatever the handlers in flight do.
C17_ClosedIsStable ==
    (done.out = "denied" /\ doneDay = clock) =>
        can_predict_today(file, Today) # Return(TRUE)

\* C18: a file left unreadable by a failed save does not keep /predict
\* failing: on a later day, a /predict ended by the load's exception is not
\* followed by another that raises on the load.
C18_ErrorsNotPermanent ==
    ~ /\ failedOn > 0
      /\ clock > failedOn
      /\ done = Done("error", "JSONDecodeError", TRUE)
      /\ doneDay = clock
      /\ \E p \in Procs : pc[p] = "error" /\ exc[p] = "JSONDecodeError"

\* C19: start, help_command, handle_button, error_handler and the check of
\* a /predict run leave the file as it is; whenever the file changes, the
\* step is one of the save inside register_prediction() of a /predict run
\* that passed the check and fetched its predictions.
C19_OnlyConsumeMutates ==
    [][/\ (StartCmd \/ HelpCmd \/ ButtonCmd) => file' = file
       /\ \A p \in Procs :
              (ErrorHandler(p) \/ CptLoad(p) \/ CptDecide(p)) => file' = file
       /\ file' # file =>
              \E p \in Procs :
                  /\ SaveOpen(p) \/ SaveDump(p) \/ SaveDumpFails(p)
                  /\ trace[p] = SubSeq(RunAllowed, 1, 2)]_vars

C19_Witness ==
    /\ done = Done("league_soon", "none", FALSE)
    /\ doneTrace = << "edit_message_text" >>
    /\ doneDay = clock
    /\ Stored(file) = [date |-> Today, count |-> LIMIT]
    /\ Holds(file)

\* C21: get_top_predictions() returns at most 5 entries (5 of them), each
\* a label of the list with an integer confidence within 80..99, hence
\* within 0..100, and no entry has a lower confidence than the one after
\* it, whatever random.randint draws.
C21_TopSorted ==
    top # << >> =>
        /\ Len(top) <= 5
        /\ Len(top) = get_top_predictions_len
        /\ \A i \in 1..Len(top) :
               /\ DOMAIN top[i] = {"label", "confidence"}
               /\ \E m \in 1..NumMatches : top[i].label = Matches[m]
               /\ top[i].confidence \in 80..99
               /\ top[i].confidence \in 0..100
        /\ \A i \in 1..(Len(top) - 1) :
               top[i].confidence >= top[i + 1].confidence

C21_Witness ==
    /\ Len(top) = 5
    /\ top[1] = [label |-> Matches[5], confidence |-> ConfHi]
    /\ top[2].confidence = top[3].confidence
    /\ top[2].label = Matches[1]
    /\ top[3].label = Matches[4]
    /\ top[4].confidence > top[5].confidence
    /\ top[5] = [label |-> Matches[2], confidence |-> ConfLo]

=============================================================================
